---- MODULE Spec2Model ----
(***************************************************************************)
(* Model of src/enggdev.py: the login / poll-two-devices / publish loop of *)
(* main(), the extraction heuristic of scrape_device_data and the publish  *)
(* call of publish_to_mqtt.                                                *)
(*                                                                         *)
(* Strings the code inspects character by character (parameter names, the  *)
(* landing URL) are sequences of one-character strings, so that lower()    *)
(* and the "in" substring test are computed and not assumed.  Python       *)
(* indices are 0-based; a Python index i is position i + 1 of the TLA+     *)
(* sequence.                                                               *)
(***************************************************************************)
EXTENDS Integers, Sequences, FiniteSets, TLC

\* Bounds of the model (not program constants).
MaxCycles == 3
MaxPara == 3
MaxLogins == 3

VARIABLES
    pc,            \* position of the single control thread in main()
    session,       \* main's local `session` (NoSession models Python None)
    val_mill_2,    \* run_cycle's local val_mill_2
    val_mill_1,    \* run_cycle's local val_mill_1
    success,       \* main's local `success`
    cycle_count,   \* main's local cycle_count
    exit_code,     \* process exit status once pc = "exited" (-1 while alive)
    exit_cause,    \* what ended the process
    login_calls,   \* number of login_to_site calls so far (names the sessions)
    relogins,      \* login_to_site calls since the current cycle ended
    reads,         \* calls of scrape_device_data that ended in the current cycle
    pub_calls,     \* publish_to_mqtt calls in the current cycle
    pub_outcome,   \* how the publish call of the current cycle ended
    mqtt_loop,     \* TRUE while a paho network loop started by loop_start runs
    initial_login, \* "pending", "ok" or "failed": how the login of line 261 ended
    ever_read,     \* TRUE once any device read was issued
    ever_published,\* TRUE once publish_to_mqtt was called
    env,           \* the environment load_config reads (.env and os.environ)
    logins,        \* every login_to_site call so far: its response and result
    message,       \* publish_to_mqtt's local `message` in the current cycle
    interrupted_at,\* where the control thread was when Ctrl+C arrived
    response,      \* the telemetry response under extraction (SpecExtract)
    extracted      \* what scrape_device_data made of `response` (SpecExtract)

vars == <<pc, session, val_mill_2, val_mill_1, success, cycle_count, exit_code,
          exit_cause, login_calls, relogins, reads, pub_calls, pub_outcome,
          mqtt_loop, initial_login, ever_read, ever_published, env, logins,
          message, interrupted_at, response, extracted>>

mainVars == <<pc, session, val_mill_2, val_mill_1, success, cycle_count,
              exit_code, exit_cause, login_calls, relogins, reads, pub_calls,
              pub_outcome, mqtt_loop, initial_login, ever_read,
              ever_published, env, logins, message, interrupted_at>>

-----------------------------------------------------------------------------
(* Python values *)

\* Python None as a reading; differs from every string a payload can hold.
None == "<None>"
\* Python None as main's session; live sessions are numbered 1, 2, ...
NoSession == 0
\* A local that has not been assigned in the current call.
Unbound == "<unbound>"

\* `v is not None` in place of bool(v).
not_none(v) == v # None

\* bool(v) of a reading: None and the empty string are falsy, every other
\* string (the string "0" included) is truthy.
Truthy(v) == v # None /\ v # ""

UpperCase == <<"A","B","C","D","E","F","G","H","I","J","K","L","M",
               "N","O","P","Q","R","S","T","U","V","W","X","Y","Z">>
LowerCase == <<"a","b","c","d","e","f","g","h","i","j","k","l","m",
               "n","o","p","q","r","s","t","u","v","w","x","y","z">>

\* str.lower() on one character and on a string.
lower_char(c) ==
    IF \E i \in 1..26 : UpperCase[i] = c
    THEN LowerCase[CHOOSE i \in 1..26 : UpperCase[i] = c]
    ELSE c

str_lower(s) == [i \in 1..Len(s) |-> lower_char(s[i])]

\* Python's `k in s` on strings: k occurs in s as a contiguous substring.
str_contains(s, k) ==
    \E i \in 1..(Len(s) - Len(k) + 1) : SubSeq(s, i, i + Len(k) - 1) = k

kw_spm == <<"s","p","m">>
kw_pm == <<"p","m">>
kw_particulate == <<"p","a","r","t","i","c","u","l","a","t","e">>
kw_home == <<"h","o","m","e",".","p","h","p">>

\* Exit statuses: sys.exit(0), sys.exit(1), and the status of a Python process
\* ended by a KeyboardInterrupt nothing catches.
ExitClean == 0
ExitError == 1
ExitUncaughtInterrupt == 130

-----------------------------------------------------------------------------
(* Inputs: what the remote site can answer *)

\* Parameter names a payload can carry.
Temp == <<"T","e","m","p">>
Hum == <<"H","u","m">>
SPM25 == <<"S","P","M","2",".","5">>
Rpm == <<"r","p","m">>
ParticulateMatter == <<"P","a","r","t","i","c","u","l","a","t","e"," ","M">>
Names == {Temp, Hum, SPM25, Rpm, ParticulateMatter}

\* Current values a payload can carry (strings, as the endpoint sends them).
Values == {"", "0", "112"}

SeqsUpTo(S, n) == UNION {[1..k -> S] : k \in 0..n}

Keys == {"para", "last", "unit"}

\* A JSON object: the keys it has, and its 'para' and 'last' arrays ('unit' is
\* only printed).  Objects lacking one of the three keys carry a sample of the
\* arrays under the keys they have.
SampleParas == {<<>>, <<SPM25>>, <<Temp, Hum, Temp>>}
SampleLasts == {<<>>, <<"112">>, <<"0", "", "112">>}

JsonObjects ==
    {[kind |-> "json", keys |-> Keys, para |-> p, last |-> l] :
        p \in SeqsUpTo(Names, MaxPara), l \in SeqsUpTo(Values, MaxPara)}
    \cup
    UNION {{[kind |-> "json", keys |-> k, para |-> p, last |-> l] :
                p \in (IF "para" \in k THEN SampleParas ELSE {<<>>}),
                l \in (IF "last" \in k THEN SampleLasts ELSE {<<>>})} :
           k \in (SUBSET Keys) \ {Keys}}

\* "transport": session.post or raise_for_status raised a RequestException;
\* "text": the body is not JSON; "json_nonobject": the body is JSON but not an
\* object (a list, null, a number).
OtherResponses ==
    {[kind |-> k, keys |-> {}, para |-> <<>>, last |-> <<>>] :
        k \in {"transport", "text", "json_nonobject"}}

Responses == JsonObjects \cup OtherResponses

NoResponse == [kind |-> "none", keys |-> {}, para |-> <<>>, last |-> <<>>]

-----------------------------------------------------------------------------
(* scrape_device_data *)

Return(v) == [raised |-> "", value |-> v]
Raise(e) == [raised |-> e, value |-> None]

IndexError == "IndexError: list index out of range"
AttributeErrorPost == "AttributeError: 'NoneType' object has no attribute 'post'"
AttributeErrorKeys == "AttributeError: object has no attribute 'keys'"

\* data['last'][i] for a Python index i.
last_at(data, i) ==
    IF i + 1 <= Len(data.last) THEN Return(data.last[i + 1]) ELSE Raise(IndexError)

\* keyword_match without the lower() of line 163.
keyword_match_case_sensitive(param) ==
    str_contains(param, kw_spm)
    \/ str_contains(param, kw_pm)
    \/ str_contains(param, kw_particulate)

\* The test of line 164 on one parameter name.
keyword_match(param) ==
    LET param_lower == str_lower(param)
    IN  str_contains(param_lower, kw_spm)
        \/ str_contains(param_lower, kw_pm)
        \/ str_contains(param_lower, kw_particulate)

\* fallback_scan skipping only index 0 (`if i >= 1`).
RECURSIVE fallback_scan_from_1(_, _)
fallback_scan_from_1(data, i) ==
    IF i >= Len(data.para) THEN Return(None)
    ELSE IF i >= 1 THEN last_at(data, i)
    ELSE fallback_scan_from_1(data, i + 1)

\* fallback_scan without the `if i >= 2` guard.
RECURSIVE fallback_scan_unguarded(_, _)
fallback_scan_unguarded(data, i) ==
    IF i >= Len(data.para) THEN Return(None)
    ELSE last_at(data, i)

\* The loop of lines 171-175 from Python index i on: the first index >= 2.
RECURSIVE fallback_scan(_, _)
fallback_scan(data, i) ==
    IF i >= Len(data.para) THEN Return(None)
    ELSE IF i >= 2 THEN last_at(data, i)
    ELSE fallback_scan(data, i + 1)

\* The loop of lines 162-167 from Python index i on, then the fallback loop.
RECURSIVE keyword_scan(_, _)
keyword_scan(data, i) ==
    IF i >= Len(data.para) THEN fallback_scan(data, 0)
    ELSE IF keyword_match(data.para[i + 1]) THEN last_at(data, i)
    ELSE keyword_scan(data, i + 1)

\* Lines 154-184 on a parsed JSON object.
extract_value(data) ==
    IF {"para", "last", "unit"} \subseteq data.keys
    THEN keyword_scan(data, 0)
    ELSE Return(None)

\* The whole call: what it returns, or the exception that leaves it.
scrape_device_data(sess, resp) ==
    IF sess = NoSession THEN Raise(AttributeErrorPost)
    ELSE IF resp.kind = "transport" THEN Return(None)
    ELSE IF resp.kind = "text" THEN Return(None)
    ELSE IF resp.kind = "json_nonobject" THEN Raise(AttributeErrorKeys)
    ELSE extract_value(resp)

\* Every way a read with a live session can end.
ReadOutcomes == {scrape_device_data(1, r) : r \in Responses}

-----------------------------------------------------------------------------
(* load_config *)

\* The variables load_config reads; the last two must hold integers.
StrKeys == {"WEB_USERNAME", "WEB_PASSWORD", "MQTT_USER", "MQTT_PASS",
            "LOGIN_URL", "HOME_URL", "AAQ_DATA_URL", "MQTT_HOST", "MQTT_TOPIC",
            "DEVICE_MILL_1", "DEVICE_MILL_2"}
IntKeys == {"MQTT_PORT", "LOOP_INTERVAL"}
EnvKeys == StrKeys \cup IntKeys

\* os.getenv of a variable that is not set: None.
Absent == <<"<None>">>

Str1883 == <<"1","8","8","3">>
StrMinus5 == <<"-","5">>
StrAbc == <<"a","b","c">>
Str60 == <<"6","0">>
StrSpace60 == <<" ","6","0">>
Str60Point5 == <<"6","0",".","5">>

\* Strings the two integer variables can hold.  The intervals that parse are
\* non-negative, as time.sleep requires.
PortStrings == {Absent, <<>>, Str1883, StrMinus5, StrAbc}
IntervalStrings == {Absent, <<>>, Str60, StrSpace60, Str60Point5}

GoodEnv ==
    [k \in EnvKeys |->
        IF k = "MQTT_PORT" THEN Str1883
        ELSE IF k = "LOOP_INTERVAL" THEN Str60
        ELSE <<"v">>]

\* Environments: one string variable unset or empty, or any pair of port and
\* interval strings.
Envs ==
    {[GoodEnv EXCEPT ![k] = v] : k \in StrKeys, v \in {Absent, <<>>}}
    \cup
    {[GoodEnv EXCEPT !["MQTT_PORT"] = p, !["LOOP_INTERVAL"] = i] :
        p \in PortStrings, i \in IntervalStrings}

Digits == {"0","1","2","3","4","5","6","7","8","9"}

\* str.strip() of spaces, as int() does before it parses.
RECURSIVE strip_left(_)
strip_left(t) == IF t # <<>> /\ Head(t) = " " THEN strip_left(Tail(t)) ELSE t
RECURSIVE strip_right(_)
strip_right(t) ==
    IF t # <<>> /\ t[Len(t)] = " " THEN strip_right(SubSeq(t, 1, Len(t) - 1)) ELSE t

\* int(t) does not raise ValueError: after stripping, an optional sign and
\* then one or more digits.
py_int_ok(t) ==
    LET u == strip_right(strip_left(t))
        d == IF u # <<>> /\ Head(u) \in {"+", "-"} THEN Tail(u) ELSE u
    IN  d # <<>> /\ \A i \in 1..Len(d) : d[i] \in Digits

\* load_config skipping the check of line 54.
config_complete_unchecked(e) == TRUE

\* Line 54: all(config_str.values()): no value is None or empty.
config_complete(e) == \A k \in EnvKeys : e[k] # Absent /\ e[k] # <<>>

\* Lines 63-68: both int() conversions succeed.
config_ints_ok(e) == py_int_ok(e["MQTT_PORT"]) /\ py_int_ok(e["LOOP_INTERVAL"])

-----------------------------------------------------------------------------
(* login_to_site *)

UrlHome == <<"/","h","o","m","e",".","p","h","p">>
UrlLoginError == <<"/","l","o","g","i","n",".","p","h","p","?","e","r","r","o","r","=","1">>
UrlHomeUpper == <<"/","H","O","M","E",".","P","H","P">>
UrlHomeQuery == <<"/","a","/","h","o","m","e",".","p","h","p","?","x">>
Urls == {UrlHome, UrlLoginError, UrlHomeUpper, UrlHomeQuery}

\* What the login POST can come to: a RequestException (err), or a response
\* that landed on url after the redirects.
LoginResponses ==
    {[err |-> TRUE, url |-> <<>>]} \cup {[err |-> FALSE, url |-> u] : u \in Urls}

\* login_to_site comparing the landing URL without regard to case.
login_to_site_ignoring_case(r, fresh) ==
    IF r.err THEN NoSession
    ELSE IF ~str_contains(str_lower(r.url), kw_home) THEN NoSession
    ELSE fresh

\* login_to_site handing back the session object of the call before.
login_to_site_reusing_session(r, fresh) ==
    IF r.err THEN NoSession
    ELSE IF ~str_contains(r.url, kw_home) THEN NoSession
    ELSE IF fresh > 1 THEN fresh - 1 ELSE fresh

\* login_to_site without the `return None` of line 101.
login_to_site_no_return(r, fresh) ==
    IF r.err THEN NoSession
    ELSE fresh

\* Lines 94-108: the fresh session, or None.
login_to_site(r, fresh) ==
    IF r.err THEN NoSession
    ELSE IF ~str_contains(r.url, kw_home) THEN NoSession
    ELSE fresh

-----------------------------------------------------------------------------
(* run_cycle and main *)

\* publish_to_mqtt with the two readings the other way round in the message.
publish_message_swapped(mill_1_value, mill_2_value) ==
    "SPM_2:" \o mill_1_value \o ",SPM_1:" \o mill_2_value

\* Line 194: f"SPM_2:{mill_2_value},SPM_1:{mill_1_value}" on string readings.
publish_message(mill_1_value, mill_2_value) ==
    "SPM_2:" \o mill_2_value \o ",SPM_1:" \o mill_1_value

\* main going on into the loop whatever the initial login returned.
initial_login_never_exits(sess) == FALSE

\* Line 262: `if not session` after the initial login.
initial_login_exits(sess) == sess = NoSession

\* `if val_mill_1 or val_mill_2`.
cycle_gate_or(v1, v2) == Truthy(v1) \/ Truthy(v2)

\* Line 236: `if val_mill_1 and val_mill_2`.
cycle_gate(v1, v2) == Truthy(v1) /\ Truthy(v2)

\* run_cycle returning whether the publish was acknowledged.
run_cycle_returns_ack(o) == o = "acked"

\* Lines 237-238: what run_cycle returns after publish_to_mqtt ended with o.
run_cycle_after_publish(o) == TRUE

\* main retrying a failed re-login before it sleeps.
after_relogin_retry(sess) == IF sess = NoSession THEN "relogin" ELSE "sleep"

\* Lines 279-286: where main goes after the re-login returned sess.
after_relogin(sess) == "sleep"

Init ==
    /\ pc = "load_config"
    /\ session = NoSession
    /\ val_mill_2 = Unbound
    /\ val_mill_1 = Unbound
    /\ success = FALSE
    /\ cycle_count = 0
    /\ exit_code = -1
    /\ exit_cause = ""
    /\ login_calls = 0
    /\ relogins = 0
    /\ reads = <<>>
    /\ pub_calls = 0
    /\ pub_outcome = "none"
    /\ mqtt_loop = FALSE
    /\ initial_login = "pending"
    /\ ever_read = FALSE
    /\ ever_published = FALSE
    /\ env \in Envs
    /\ logins = <<>>
    /\ message = ""
    /\ interrupted_at = ""
    /\ response = NoResponse
    /\ extracted = Return(Unbound)

\* sys.exit(code), reached for the reason `cause`.
Exit(code, cause) ==
    /\ pc' = "exited"
    /\ exit_code' = code
    /\ exit_cause' = cause

\* Lines 250-251: load_config returns the configuration or exits.
LoadConfig ==
    /\ pc = "load_config"
    /\ IF ~config_complete(env)
       THEN Exit(ExitError, "config: missing variables")
       ELSE IF ~config_ints_ok(env)
            THEN Exit(ExitError, "config: invalid integer")
            ELSE /\ pc' = "login_initial"
                 /\ UNCHANGED <<exit_code, exit_cause>>
    /\ UNCHANGED <<session, val_mill_2, val_mill_1, success, cycle_count,
                   login_calls, relogins, reads, pub_calls, pub_outcome, mqtt_loop,
                   initial_login, ever_read, ever_published, env, logins, message,
                   interrupted_at, response, extracted>>

\* Lines 261-264.
InitialLogin ==
    /\ pc = "login_initial"
    /\ \E r \in LoginResponses :
        LET s == login_to_site(r, login_calls + 1)
        IN  /\ session' = s
            /\ logins' = Append(logins, [resp |-> r, ret |-> s])
            /\ IF initial_login_exits(s)
               THEN /\ Exit(ExitError, "initial login failed")
                    /\ initial_login' = "failed"
               ELSE /\ pc' = "loop_top"
                    /\ initial_login' = IF s = NoSession THEN "failed" ELSE "ok"
                    /\ UNCHANGED <<exit_code, exit_cause>>
    /\ login_calls' = login_calls + 1
    /\ UNCHANGED <<val_mill_2, val_mill_1, success, cycle_count, relogins, reads,
                   pub_calls, pub_outcome, mqtt_loop, ever_read, ever_published,
                   response, extracted>>
    /\ UNCHANGED <<env, message, interrupted_at>>

\* Lines 270-274 up to the call of run_cycle: a new cycle starts.
LoopTop ==
    /\ pc = "loop_top"
    /\ cycle_count < MaxCycles
    /\ cycle_count' = cycle_count + 1
    /\ pc' = "read_mill_2"
    /\ val_mill_2' = Unbound
    /\ val_mill_1' = Unbound
    /\ relogins' = 0
    /\ reads' = <<>>
    /\ pub_calls' = 0
    /\ pub_outcome' = "none"
    /\ UNCHANGED <<session, success, exit_code, exit_cause, login_calls, mqtt_loop,
                   initial_login, ever_read, ever_published, response, extracted>>
    /\ message' = ""
    /\ UNCHANGED <<env, logins, interrupted_at>>

\* One call of scrape_device_data from run_cycle.  An exception that leaves
\* it leaves run_cycle too and reaches `except Exception` of line 296.
ReadOutcomesOf(sess) ==
    IF sess = NoSession THEN {scrape_device_data(NoSession, NoResponse)}
    ELSE ReadOutcomes

\* Line 233.
ReadMill2 ==
    /\ pc = "read_mill_2"
    /\ \E o \in ReadOutcomesOf(session) :
        /\ reads' = Append(reads, [dev |-> "MILL_2", sess |-> session, out |-> o])
        /\ IF o.raised # ""
           THEN /\ Exit(ExitError, o.raised)
                /\ UNCHANGED val_mill_2
           ELSE /\ val_mill_2' = o.value
                /\ pc' = "read_mill_1"
                /\ UNCHANGED <<exit_code, exit_cause>>
    /\ ever_read' = TRUE
    /\ UNCHANGED <<session, val_mill_1, success, cycle_count, login_calls, relogins,
                   pub_calls, pub_outcome, mqtt_loop, initial_login, ever_published,
                   response, extracted>>
    /\ UNCHANGED <<env, logins, message, interrupted_at>>

\* Line 234.
ReadMill1 ==
    /\ pc = "read_mill_1"
    /\ \E o \in ReadOutcomesOf(session) :
        /\ reads' = Append(reads, [dev |-> "MILL_1", sess |-> session, out |-> o])
        /\ IF o.raised # ""
           THEN /\ Exit(ExitError, o.raised)
                /\ UNCHANGED val_mill_1
           ELSE /\ val_mill_1' = o.value
                /\ pc' = "gate"
                /\ UNCHANGED <<exit_code, exit_cause>>
    /\ ever_read' = TRUE
    /\ UNCHANGED <<session, val_mill_2, success, cycle_count, login_calls, relogins,
                   pub_calls, pub_outcome, mqtt_loop, initial_login, ever_published,
                   response, extracted>>
    /\ UNCHANGED <<env, logins, message, interrupted_at>>

\* Lines 236-245: publish, or return False.
Gate ==
    /\ pc = "gate"
    /\ IF cycle_gate(val_mill_1, val_mill_2)
       THEN /\ pc' = "pub_connect"
            /\ UNCHANGED success
       ELSE /\ pc' = "check_success"
            /\ success' = FALSE
    /\ UNCHANGED <<session, val_mill_2, val_mill_1, cycle_count, exit_code,
                   exit_cause, login_calls, relogins, reads, pub_calls, pub_outcome,
                   mqtt_loop, initial_login, ever_read, ever_published, response,
                   extracted>>
    /\ UNCHANGED <<env, logins, message, interrupted_at>>

\* Lines 191-210: publish_to_mqtt up to loop_start.  An exception of Client(),
\* username_pw_set or connect is caught at line 223 and the call returns.
PubConnect ==
    /\ pc = "pub_connect"
    /\ pub_calls' = pub_calls + 1
    /\ ever_published' = TRUE
    /\ \E connected \in BOOLEAN :
        IF connected
        THEN /\ mqtt_loop' = TRUE
             /\ pc' = "pub_wait"
             /\ UNCHANGED <<pub_outcome, success>>
        ELSE /\ pub_outcome' = "connect_error"
             /\ success' = run_cycle_after_publish("connect_error")
             /\ pc' = "check_success"
             /\ UNCHANGED mqtt_loop
    /\ UNCHANGED <<session, val_mill_2, val_mill_1, cycle_count, exit_code,
                   exit_cause, login_calls, relogins, reads, initial_login,
                   ever_read, response, extracted>>
    /\ message' = publish_message(val_mill_1, val_mill_2)
    /\ UNCHANGED <<env, logins, interrupted_at>>

PublishErrors == {"connect_error", "publish_error", "wait_error", "timeout"}

\* Lines 212-224: publish, wait_for_publish(timeout=5), is_published, then
\* loop_stop and disconnect.  An exception of publish or of the wait jumps to
\* line 223, past loop_stop and disconnect.
PubWait ==
    /\ pc = "pub_wait"
    /\ \E o \in {"acked", "timeout", "publish_error", "wait_error"} :
        /\ pub_outcome' = o
        /\ mqtt_loop' = (o \in {"publish_error", "wait_error"})
        /\ success' = run_cycle_after_publish(o)
    /\ pc' = "check_success"
    /\ UNCHANGED <<session, val_mill_2, val_mill_1, cycle_count, exit_code,
                   exit_cause, login_calls, relogins, reads, pub_calls,
                   initial_login, ever_read, ever_published, response, extracted>>
    /\ UNCHANGED <<env, logins, message, interrupted_at>>

\* Line 277: `if not success`.
CheckSuccess ==
    /\ pc = "check_success"
    /\ pc' = IF success THEN "sleep" ELSE "relogin"
    /\ UNCHANGED <<session, val_mill_2, val_mill_1, success, cycle_count,
                   exit_code, exit_cause, login_calls, relogins, reads, pub_calls,
                   pub_outcome, mqtt_loop, initial_login, ever_read,
                   ever_published, response, extracted>>
    /\ UNCHANGED <<env, logins, message, interrupted_at>>

\* Lines 278-281: session = login_to_site(config), whatever it returns.
ReLogin ==
    /\ pc = "relogin"
    /\ \E r \in LoginResponses :
        LET s == login_to_site(r, login_calls + 1)
        IN  /\ session' = s
            /\ logins' = Append(logins, [resp |-> r, ret |-> s])
            /\ pc' = after_relogin(s)
    /\ login_calls' = login_calls + 1
    /\ relogins' = relogins + 1
    /\ UNCHANGED <<val_mill_2, val_mill_1, success, cycle_count, exit_code,
                   exit_cause, reads, pub_calls, pub_outcome, mqtt_loop,
                   initial_login, ever_read, ever_published, response, extracted>>
    /\ UNCHANGED <<env, message, interrupted_at>>

\* Lines 284-286: time.sleep(loop_interval) returns.
Sleep ==
    /\ pc = "sleep"
    /\ pc' = "loop_top"
    /\ UNCHANGED <<session, val_mill_2, val_mill_1, success, cycle_count,
                   exit_code, exit_cause, login_calls, relogins, reads, pub_calls,
                   pub_outcome, mqtt_loop, initial_login, ever_read,
                   ever_published, response, extracted>>
    /\ UNCHANGED <<env, logins, message, interrupted_at>>

\* Ctrl+C held back until the device read in flight has returned.
Interrupt_completes_read ==
    /\ pc # "exited"
    /\ IF pc \in {"load_config", "login_initial"}
       THEN Exit(ExitUncaughtInterrupt, "KeyboardInterrupt")
       ELSE Exit(ExitClean, "KeyboardInterrupt")
    /\ reads' = IF pc = "read_mill_2"
                THEN Append(reads, [dev |-> "MILL_2", sess |-> session,
                                    out |-> Return(None)])
                ELSE IF pc = "read_mill_1"
                THEN Append(reads, [dev |-> "MILL_1", sess |-> session,
                                    out |-> Return(None)])
                ELSE reads
    /\ interrupted_at' = pc
    /\ UNCHANGED <<session, val_mill_2, val_mill_1, success, cycle_count,
                   login_calls, relogins, pub_calls, pub_outcome, mqtt_loop,
                   initial_login, ever_read, ever_published, env, logins, message,
                   response, extracted>>

\* Ctrl+C: KeyboardInterrupt is raised in the control thread wherever it is.
\* Inside the try of line 268 it reaches line 288 and sys.exit(0); during
\* load_config and the initial login nothing catches it.
Interrupt ==
    /\ pc # "exited"
    /\ IF pc \in {"load_config", "login_initial"}
       THEN Exit(ExitUncaughtInterrupt, "KeyboardInterrupt")
       ELSE Exit(ExitClean, "KeyboardInterrupt")
    /\ UNCHANGED <<session, val_mill_2, val_mill_1, success, cycle_count,
                   login_calls, relogins, reads, pub_calls, pub_outcome, mqtt_loop,
                   initial_login, ever_read, ever_published, response, extracted>>
    /\ interrupted_at' = pc
    /\ UNCHANGED <<env, logins, message>>

Next ==
    \/ LoadConfig
    \/ InitialLogin
    \/ LoopTop
    \/ ReadMill2
    \/ ReadMill1
    \/ Gate
    \/ PubConnect
    \/ PubWait
    \/ CheckSuccess
    \/ ReLogin
    \/ Sleep
    \/ Interrupt

Spec == Init /\ [][Next]_vars

-----------------------------------------------------------------------------
(* scrape_device_data on its own: one response, one call with a live session *)

InitExtract ==
    /\ pc = "scrape"
    /\ session = 1
    /\ val_mill_2 = Unbound
    /\ val_mill_1 = Unbound
    /\ success = FALSE
    /\ cycle_count = 0
    /\ exit_code = -1
    /\ exit_cause = ""
    /\ login_calls = 1
    /\ relogins = 0
    /\ reads = <<>>
    /\ pub_calls = 0
    /\ pub_outcome = "none"
    /\ mqtt_loop = FALSE
    /\ initial_login = "ok"
    /\ ever_read = FALSE
    /\ ever_published = FALSE
    /\ env = GoodEnv
    /\ logins = <<>>
    /\ message = ""
    /\ interrupted_at = ""
    /\ response \in Responses
    /\ extracted = Return(Unbound)

\* Lines 130-188 on `response`.
Scrape ==
    /\ pc = "scrape"
    /\ extracted' = scrape_device_data(session, response)
    /\ pc' = "scraped"
    /\ ever_read' = TRUE
    /\ UNCHANGED <<session, val_mill_2, val_mill_1, success, cycle_count,
                   exit_code, exit_cause, login_calls, relogins, reads, pub_calls,
                   pub_outcome, mqtt_loop, initial_login, ever_published, response>>
    /\ UNCHANGED <<env, logins, message, interrupted_at>>

NextExtract == Scrape

SpecExtract == InitExtract /\ [][NextExtract]_vars

-----------------------------------------------------------------------------
(* login_to_site on its own: a series of calls, each with its own response *)

InitLogin ==
    /\ pc = "login"
    /\ session = NoSession
    /\ val_mill_2 = Unbound
    /\ val_mill_1 = Unbound
    /\ success = FALSE
    /\ cycle_count = 0
    /\ exit_code = -1
    /\ exit_cause = ""
    /\ login_calls = 0
    /\ relogins = 0
    /\ reads = <<>>
    /\ pub_calls = 0
    /\ pub_outcome = "none"
    /\ mqtt_loop = FALSE
    /\ initial_login = "pending"
    /\ ever_read = FALSE
    /\ ever_published = FALSE
    /\ env = GoodEnv
    /\ logins = <<>>
    /\ message = ""
    /\ interrupted_at = ""
    /\ response = NoResponse
    /\ extracted = Return(Unbound)

\* Lines 78-108: one call, whose result the caller keeps as its session.
LoginCall ==
    /\ pc = "login"
    /\ login_calls < MaxLogins
    /\ \E r \in LoginResponses :
        LET s == login_to_site(r, login_calls + 1)
        IN  /\ session' = s
            /\ logins' = Append(logins, [resp |-> r, ret |-> s])
    /\ login_calls' = login_calls + 1
    /\ UNCHANGED <<pc, val_mill_2, val_mill_1, success, cycle_count, exit_code,
                   exit_cause, relogins, reads, pub_calls, pub_outcome, mqtt_loop,
                   initial_login, ever_read, ever_published, env, message,
                   interrupted_at, response, extracted>>

NextLogin == LoginCall

SpecLogin == InitLogin /\ [][NextLogin]_vars

-----------------------------------------------------------------------------
(* Properties *)

\* Positions of main after run_cycle returned and before the next cycle.
AfterCycle == {"check_success", "relogin", "sleep"}

\* A read that yielded a non-empty reading: it returned, and what it returned
\* is neither None nor the empty string.
HasReading(out) == out.raised = "" /\ out.value \notin {None, ""}

\* Both reads of the current cycle were issued, device 2 then device 1, and
\* both yielded a non-empty reading.
BothReadingsNonEmpty ==
    /\ Len(reads) = 2
    /\ reads[1].dev = "MILL_2" /\ HasReading(reads[1].out)
    /\ reads[2].dev = "MILL_1" /\ HasReading(reads[2].out)

C2_ReloginExactlyOnce ==
    /\ relogins <= 1
    /\ pc = "relogin" => (~success /\ relogins = 0)
    /\ pc = "sleep" => relogins = (IF success THEN 0 ELSE 1)

C2_Witness ==
    pc = "sleep" /\ ~success /\ relogins = 1 /\ session = NoSession

\* C3: when the initial login fails the process has exited with a non-zero
\* status, no cycle was started, no device was read and nothing was published.
C3_InitialLoginFailureExits ==
    initial_login = "failed" =>
        /\ pc = "exited"
        /\ exit_code # ExitClean
        /\ cycle_count = 0
        /\ ~ever_read
        /\ ~ever_published

C3_Witness ==
    initial_login = "failed" /\ pc = "exited" /\ exit_code = ExitError

\* C4: when run_cycle has returned, it returned True exactly when both device
\* reads yielded a non-empty reading.
C4_SuccessIffBothReadings ==
    pc = "check_success" => (success <=> BothReadingsNonEmpty)

C4_Witness ==
    /\ pc = "check_success"
    /\ ~success
    /\ Len(reads) = 2
    /\ reads[1].out = Return("0")
    /\ reads[2].out = Return("")

\* A read with a live session that ended in a read error: an exception left
\* it, or it returned None.
ReadError(e) == e.sess # NoSession /\ (e.out.raised # "" \/ e.out.value = None)

\* C5: a read error of the current cycle makes run_cycle return False and never
\* ends the process (only an interrupt does).
C5_ReadErrorsFailCycleOnly ==
    (\E i \in 1..Len(reads) : ReadError(reads[i])) =>
        /\ pc = "exited" => exit_cause = "KeyboardInterrupt"
        /\ pc \in AfterCycle => ~success

\* C6: publish_to_mqtt is called at most once per cycle, only after both reads
\* of that cycle yielded a non-empty reading, and never in a cycle that
\* reports failure.
C6_PublishOnlyAfterBothReadings ==
    /\ pub_calls <= 1
    /\ pub_calls > 0 => BothReadingsNonEmpty
    /\ (pc \in AfterCycle /\ ~success) => pub_calls = 0

C6_Witness ==
    pc = "pub_wait" /\ pub_calls = 1 /\ BothReadingsNonEmpty

\* C7: after a failed publish run_cycle returns True, no re-login is made, the
\* loop goes on to the sleep and the next cycle, and only an interrupt can end
\* the process.
C7_PublishFailureNotFatal ==
    pub_outcome \in PublishErrors =>
        /\ pc \in {"check_success", "sleep", "loop_top", "exited"}
        /\ pc # "exited" => success
        /\ pc = "exited" => exit_cause = "KeyboardInterrupt"
        /\ relogins = 0

C7_Witness ==
    pub_outcome = "wait_error" /\ pc = "loop_top" /\ success /\ cycle_count = 1

\* The names of Names that contain "spm", "pm" or "particulate" when case is
\* ignored.
MatchingNames == {SPM25, Rpm, ParticulateMatter}

\* The Python indices of the parameter names that match.
MatchingIndices(para) == {i \in 0..(Len(para) - 1) : para[i + 1] \in MatchingNames}

SmallestOf(S) == CHOOSE i \in S : \A j \in S : i <= j

\* A scraped JSON object with the three arrays.
ScrapedPayload ==
    pc = "scraped" /\ response.kind = "json" /\ Keys \subseteq response.keys

\* C8: when some parameter name matches, the extracted value is the 'last'
\* entry at the smallest matching index.
C8_FirstMatchWins ==
    (/\ ScrapedPayload
     /\ MatchingIndices(response.para) # {}
     /\ SmallestOf(MatchingIndices(response.para)) < Len(response.last))
        => extracted =
             Return(response.last[SmallestOf(MatchingIndices(response.para)) + 1])

C8_Witness ==
    /\ pc = "scraped"
    /\ response.para = <<Temp, ParticulateMatter, SPM25>>
    /\ response.last = <<"", "0", "112">>
    /\ extracted = Return("0")

\* C9: when no parameter name matches and there are at least 3 parameters, the
\* extracted value is the 'last' entry at index 2.
C9_FallbackIndex2 ==
    (/\ ScrapedPayload
     /\ MatchingIndices(response.para) = {}
     /\ Len(response.para) >= 3
     /\ Len(response.last) >= 3)
        => extracted = Return(response.last[3])

C9_Witness ==
    /\ pc = "scraped"
    /\ response.para = <<Temp, Hum, Temp>>
    /\ response.last = <<"112", "0", "">>
    /\ extracted = Return("")

\* C10: when no parameter name matches and there are fewer than 3 parameters,
\* the call returns None and raises nothing, whatever 'last' holds.
C10_NoReadingFound ==
    (/\ ScrapedPayload
     /\ MatchingIndices(response.para) = {}
     /\ Len(response.para) < 3)
        => extracted = Return(None)

C10_Witness ==
    /\ pc = "scraped"
    /\ response.para = <<Temp, Hum>>
    /\ response.last = <<"112", "0">>
    /\ extracted = Return(None)

\* C11: in a cycle that publishes, the message is "SPM_2:" followed by the
\* reading of this cycle's MILL_2 read, ",SPM_1:" and the reading of this
\* cycle's MILL_1 read.
C11_MessageFormat ==
    pub_calls > 0 =>
        /\ Len(reads) = 2
        /\ reads[1].dev = "MILL_2" /\ reads[2].dev = "MILL_1"
        /\ message = "SPM_2:" \o reads[1].out.value
                        \o ",SPM_1:" \o reads[2].out.value

C11_Witness ==
    /\ pub_calls = 1
    /\ cycle_count = 2
    /\ reads[1].out = Return("0")
    /\ reads[2].out = Return("112")
    /\ message = "SPM_2:0,SPM_1:112"

\* The landing URLs of Urls that contain "home.php".
HomeUrls == {UrlHome, UrlHomeQuery}

\* The two kinds of failed login: the POST raised a RequestException, or it
\* completed and landed somewhere that is not the authenticated home.
TransportFailure(l) == l.resp.err
Rejected(l) == ~l.resp.err /\ l.resp.url \notin HomeUrls

\* C12: a login call returns a session exactly when the POST completed
\* without an error and the landing URL contains "home.php"; the session is
\* the one created by that call.
C12_SessionIffHomeUrl ==
    \A i \in 1..Len(logins) :
        /\ logins[i].ret # NoSession
              <=> (~logins[i].resp.err /\ logins[i].resp.url \in HomeUrls)
        /\ logins[i].ret # NoSession => logins[i].ret = i

C12_Witness ==
    /\ pc = "login"
    /\ Len(logins) = 2
    /\ logins[1].resp = [err |-> FALSE, url |-> UrlHomeUpper]
    /\ logins[1].ret = NoSession
    /\ logins[2].resp = [err |-> FALSE, url |-> UrlHomeQuery]
    /\ logins[2].ret = 2

\* C16 as claimed: a login that failed in transport and a login that was
\* rejected return different values.
C16_FailureKindsDistinct ==
    \A i, j \in 1..Len(logins) :
        (TransportFailure(logins[i]) /\ Rejected(logins[j]))
            => logins[i].ret # logins[j].ret

\* C16 as amended: a login that failed in transport and a login that was
\* rejected return the same value, None.
C16_FailureKindsBothNone ==
    \A i, j \in 1..Len(logins) :
        (TransportFailure(logins[i]) /\ Rejected(logins[j]))
            => (logins[i].ret = NoSession /\ logins[j].ret = NoSession)

C16_Witness ==
    /\ pc = "login"
    /\ Len(logins) = 2
    /\ TransportFailure(logins[1]) /\ logins[1].ret = NoSession
    /\ logins[2].resp.url = UrlLoginError /\ logins[2].ret = NoSession

\* The strings of PortStrings and IntervalStrings that int() accepts.
IntegerStrings == {Str1883, StrMinus5, Str60, StrSpace60}

\* A required value is absent, or the port or the interval is no integer.
BadConfig ==
    \/ \E k \in EnvKeys : env[k] = Absent
    \/ env["MQTT_PORT"] \notin IntegerStrings
    \/ env["LOOP_INTERVAL"] \notin IntegerStrings

\* C15: with a bad configuration the process never gets past load_config: it
\* exits with a non-zero status and no login, read or publish is made.
C15_BadConfigExitsBeforeLogin ==
    BadConfig =>
        /\ pc \in {"load_config", "exited"}
        /\ pc = "exited" => exit_code # ExitClean
        /\ login_calls = 0 /\ logins = <<>>
        /\ ~ever_read
        /\ ~ever_published

C15_Witness ==
    /\ env["WEB_PASSWORD"] = Absent
    /\ pc = "exited"
    /\ exit_code = ExitError
    /\ exit_cause = "config: missing variables"

\* The exceptions a device read on a live session can let escape.
ReadExceptions == {IndexError, AttributeErrorKeys}

\* C13: an interrupt during the initial login, a read, a publish, a re-login
\* or the sleep ends the process with status 0; an error that escapes the loop
\* body ends it with a non-zero status.
C13_ExitCodes ==
    pc = "exited" =>
        /\ (exit_cause = "KeyboardInterrupt" /\ interrupted_at # "load_config")
              => exit_code = ExitClean
        /\ exit_cause \in ReadExceptions \cup {AttributeErrorPost}
              => exit_code # ExitClean

\* Positions of the control thread inside run_cycle.
InCycle == {"read_mill_2", "read_mill_1", "gate", "pub_connect", "pub_wait"}

C17_FailedReloginKeepsSession ==
    (pc = "sleep" /\ relogins = 1 /\ logins[Len(logins)].ret = NoSession)
        => (session # NoSession /\ session = reads[1].sess)

\* C18: outside publish_to_mqtt no network loop started by it is running.
C18_LoopStoppedAfterPublish ==
    pc \notin {"pub_wait", "exited"} => ~mqtt_loop

\* run_cycle is over: it has made its reads, or a read on a live session let
\* an exception escape.
CycleReadsOver ==
    \/ pc \in {"gate", "pub_connect", "pub_wait"} \cup AfterCycle
    \/ pc = "exited" /\ exit_cause \in ReadExceptions

\* C19: every cycle makes exactly two reads, MILL_2 then MILL_1, the second
\* also when the first failed, and both before any publish.
C19_TwoReadsInOrder ==
    /\ CycleReadsOver =>
          (Len(reads) = 2 /\ reads[1].dev = "MILL_2" /\ reads[2].dev = "MILL_1")
    /\ pub_calls > 0 => Len(reads) = 2

\* C20: main holds what the latest login returned; the reads of a cycle use
\* the session held; a successful cycle leaves it as it was; a successful
\* re-login after a failed cycle replaces it by a session that is new.
C20_SessionReplacedOnlyByRelogin ==
    /\ Len(logins) > 0 => session = logins[Len(logins)].ret
    /\ pc \in InCycle \cup {"check_success", "relogin"} =>
          \A i \in 1..Len(reads) : reads[i].sess = session
    /\ (pc = "sleep" /\ success) =>
          (relogins = 0 /\ \A i \in 1..Len(reads) : reads[i].sess = session)
    /\ (pc = "sleep" /\ ~success /\ session # NoSession) =>
          /\ session = login_calls
          /\ \A i \in 1..Len(reads) : reads[i].sess # session

C20_Witness ==
    /\ pc = "read_mill_1"
    /\ cycle_count = 2
    /\ session = 2
    /\ Len(logins) = 2
    /\ reads = <<[dev |-> "MILL_2", sess |-> 2, out |-> Return("112")]>>

====
